---- MODULE Spec2Model ----
(***************************************************************************)
(* A model of mjpeg_rs (src/src/lib.rs): the MJpeg frame relay, a          *)
(* crossbeam bounded(1) channel whose Sender belongs to the producer API   *)
(* (update_jpeg, try_update_jpeg, is_full) and whose single Receiver,      *)
(* behind Arc<Mutex<..>>, is shared by the connection handler threads that *)
(* MJpeg::run spawns.                                                      *)
(***************************************************************************)
EXTENDS Integers, Sequences, FiniteSets, TLC

(* ------------------------------ bounds --------------------------------- *)

\* Number of frames the producer places in the channel before it stops
\* publishing.
MaxFrames == 2

\* Number of iterations of the listener loop: connection attempts that
\* incoming() yields and run hands to thread::spawn.
MaxConns == 2

\* Longest payload handed to update_jpeg / try_update_jpeg.
MaxLen == 1

\* Number of I/O faults in a run: failed accepts, failed writes, short writes.
MaxFaults == 1

\* Longest buffer handed to Frame::from_jpeg_buf when it is examined alone
\* (long enough for a length of two decimal digits).
MaxBufLen == 10

(* ----------------------------- constants ------------------------------- *)

\* bounded(1): the capacity of the channel.
Cap == 1

\* The payload of n bytes (the code never looks at a payload byte, only at
\* the payload's length, so every byte is 255).
PayloadOfLen(n) == [ i \in 1..n |-> 255 ]

\* The Vec<u8> arguments the producer may pass: the empty buffer and the
\* longest one.
Payloads == { PayloadOfLen(0), PayloadOfLen(MaxLen) }

\* The thread slots of the listener loop, in spawn order.
Conns == 1..MaxConns

\* The byte values used in the buffers given to Frame::from_jpeg_buf alone.
Bytes == { 0, 255 }

\* The Vec<u8> values of at most MaxBufLen bytes.
Buffers == UNION { [ 1..n -> Bytes ] : n \in 0..MaxBufLen }

(* ------------------------------ Frame ---------------------------------- *)

\* One character of the decimal rendering of a usize.
Digit(d) ==
    CASE d = 0 -> "0" [] d = 1 -> "1" [] d = 2 -> "2" [] d = 3 -> "3"
      [] d = 4 -> "4" [] d = 5 -> "5" [] d = 6 -> "6" [] d = 7 -> "7"
      [] d = 8 -> "8" [] OTHER -> "9"

\* A rendering that keeps only the last decimal digit.
DecimalLowDigit(n) == <<Digit(n % 10)>>

\* format!("{}", n) for a usize: the decimal digits, most significant first.
RECURSIVE Decimal(_)
Decimal(n) ==
    IF n < 10 THEN <<Digit(n)>>
    ELSE Append(Decimal(n \div 10), Digit(n % 10))

\* The literal text of the part header before and after the length.
HeaderPrefix == "\r\n--MJPEGBOUNDARY\r\nContent-Length: "
HeaderSuffix == "\r\nX-Timestamp: 0.000000\r\n\r\n"

\* The bytes of the HTTP response preamble, one element per line written.
Preamble ==
    << "HTTP/1.1 200 OK\r\n",
       "Content-Type: multipart/x-mixed-replace;boundary=MJPEGBOUNDARY\r\n" >>

\* Frame::from_jpeg_buf: header text around the decimal length, body = buf.
from_jpeg_buf(buf) ==
    [ header |-> <<HeaderPrefix>> \o Decimal(Len(buf)) \o <<HeaderSuffix>>,
      body   |-> buf ]

\* A frame in flight, with the publication number it was sent under (the
\* number is bookkeeping of the model: the n-th frame placed in the channel).
Numbered(frame, n) ==
    [ id |-> n, header |-> frame.header, body |-> frame.body ]

\* No frame held.
NoFrame == [ id |-> 0, header |-> <<>>, body |-> <<>> ]

(* ------------------------------ state ---------------------------------- *)

VARIABLES
    mjpegAlive,   \* the MJpeg value (its Sender and its Arc of the Receiver) exists
    slot,         \* the channel's buffer: a sequence of numbered frames
    published,    \* number of frames placed in the channel so far
    prodPc,       \* producer thread: "idle" or "blocked" inside update_jpeg
    pending,      \* the frame a blocked update_jpeg is waiting to place
    result,       \* what the producer's latest call returned
    runPc,        \* run: "idle", "accepting", "bind_failed", "panicked"
    nThreads,     \* number of threads run has spawned
    pc,           \* per thread: its position in the closure of run
    hold,         \* per thread: the frame it received and is writing
    socket,       \* per thread: the chunks its stream accepted, in order
    rcvd,         \* per thread: the publication numbers it received, in order
    lockHolder,   \* the thread holding the Mutex guard, or 0
    poisoned,     \* the Mutex is poisoned: a thread panicked holding its guard
    faults        \* number of I/O faults so far

vars == << mjpegAlive, slot, published, prodPc, pending, result,
           runPc, nThreads, pc, hold, socket, rcvd, lockHolder, poisoned,
           faults >>

prodVars == << prodPc, pending, result >>
connVars == << pc, hold, socket, rcvd, lockHolder, poisoned >>
runVars  == << runPc, nThreads >>

\* Positions at which a spawned thread is still running (and so still owns
\* its clone of the Arc<Mutex<Receiver>>).
LivePcs == { "hs_write", "lock", "recv", "recv_err", "lock_err",
             "write_header", "write_body", "stream_err", "stalled" }

\* Positions of a connection handler in its streaming loop.
StreamingPcs == { "lock", "recv", "recv_err", "lock_err",
                  "write_header", "write_body" }

LiveThreads(p) == { h \in Conns : p[h] \in LivePcs }

\* Number of live Sender handles: the one inside MJpeg.
Senders(alive) == IF alive THEN 1 ELSE 0

\* The owners of the Receiver if MJpeg kept no handle of its own.
RecvHandlesThreadsOnly(alive, p) == Cardinality(LiveThreads(p))

\* Number of live owners of the Receiver: MJpeg.recv and one clone per
\* running thread (line 117).
RecvHandles(alive, p) == (IF alive THEN 1 ELSE 0) + Cardinality(LiveThreads(p))

\* The buffer after a handle went away: the channel and what it buffers are
\* freed with the last owner of the Receiver.
SlotAfterDrop(s, alive, p) == IF RecvHandles(alive, p) = 0 THEN <<>> ELSE s

(* --------------------------- construction ------------------------------ *)

\* MJpeg::new: an empty bounded(1) channel behind a fresh Mutex; no thread,
\* no call made yet.
new ==
    /\ mjpegAlive = TRUE
    /\ slot = <<>>
    /\ published = 0
    /\ prodPc = "idle"
    /\ pending = NoFrame
    /\ result = [ op |-> "none", tag |-> "none", payload |-> <<>> ]
    /\ lockHolder = 0
    /\ poisoned = FALSE

Init ==
    /\ new
    /\ runPc = "idle"
    /\ nThreads = 0
    /\ pc = [ h \in Conns |-> "unborn" ]
    /\ hold = [ h \in Conns |-> NoFrame ]
    /\ socket = [ h \in Conns |-> <<>> ]
    /\ rcvd = [ h \in Conns |-> <<>> ]
    /\ faults = 0

(* ---------------------------- the channel ------------------------------ *)

\* try_send on a channel without a capacity (unbounded() for bounded(1)).
TrySendOutcomeNoCap(s, receivers) ==
    IF receivers = 0 THEN "Disconnected" ELSE "Ok"

\* Sender::try_send on the channel: "Disconnected" when the Receiver is gone,
\* "Ok" when the buffer has room, "Full" otherwise.
TrySendOutcome(s, receivers) ==
    IF receivers = 0 THEN "Disconnected"
    ELSE IF Len(s) < Cap THEN "Ok"
    ELSE "Full"

\* An is_full that asks whether the buffer is empty.
ChanIsEmpty(s) == Len(s) = 0

\* Sender::is_full: the buffer holds as many messages as its capacity.
ChanIsFull(s) == Len(s) = Cap

\* A recv that never sees the buffered message.
RecvOutcomeNeverOk(s, senders) ==
    IF senders = 0 THEN "Err" ELSE "Block"

\* A recv that reports a disconnected channel before looking at the buffer.
RecvOutcomeDisconnectedFirst(s, senders) ==
    IF senders = 0 THEN "Err"
    ELSE IF Len(s) > 0 THEN "Ok"
    ELSE "Block"

\* Receiver::recv: "Ok" when a message is buffered, "Err" when the buffer is
\* empty and every Sender is gone, "Block" otherwise.
RecvOutcome(s, senders) ==
    IF Len(s) > 0 THEN "Ok"
    ELSE IF senders = 0 THEN "Err"
    ELSE "Block"

\* The buffer after a successful send of frame under publication number n.
Enqueue(s, frame, n) == Append(s, Numbered(frame, n))

\* A receive that leaves the message in the buffer.
DequeuePeek(s) == s

\* The buffer after a successful receive (the oldest message is taken).
Dequeue(s) == Tail(s)

(* ---------------------------- the producer ----------------------------- *)

\* An error mapping that hands back the frame's header.
ErrPayloadHeader(frame) == frame.header

\* map_err of update_jpeg and try_update_jpeg: the error carries e.0.body,
\* the body of the frame the channel refused.
ErrPayload(frame) == frame.body

\* The producer may start a publishing call: MJpeg exists, the thread is not
\* inside update_jpeg, and it has not yet placed MaxFrames frames.
CanCall ==
    /\ mjpegAlive
    /\ prodPc = "idle"
    /\ published < MaxFrames

\* MJpeg::update_jpeg(buf), up to the point where send either completes or
\* parks the thread on a full channel.
update_jpeg(buf) ==
    /\ CanCall
    /\ LET frame == from_jpeg_buf(buf)
           out   == TrySendOutcome(slot, RecvHandles(mjpegAlive, pc))
       IN  CASE out = "Ok" ->
                  /\ slot' = Enqueue(slot, frame, published + 1)
                  /\ published' = published + 1
                  /\ result' = [ op |-> "update_jpeg", tag |-> "Ok", payload |-> <<>> ]
                  /\ UNCHANGED << prodPc, pending >>
             [] out = "Full" ->
                  /\ prodPc' = "blocked"
                  /\ pending' = Numbered(frame, 0)
                  /\ UNCHANGED << slot, published, result >>
             [] OTHER ->
                  /\ result' = [ op |-> "update_jpeg", tag |-> "SendError",
                                 payload |-> ErrPayload(frame) ]
                  /\ UNCHANGED << slot, published, prodPc, pending >>
    /\ UNCHANGED << mjpegAlive, faults, runVars, connVars >>

\* A blocked send that does not wait for room and replaces the buffer.
update_jpeg_wake_force ==
    /\ prodPc = "blocked"
    /\ slot' = <<Numbered(pending, published + 1)>>
    /\ published' = published + 1
    /\ result' = [ op |-> "update_jpeg", tag |-> "Ok", payload |-> <<>> ]
    /\ prodPc' = "idle"
    /\ pending' = NoFrame
    /\ UNCHANGED << mjpegAlive, faults, runVars, connVars >>

\* The blocked send of update_jpeg completes once the channel has room.
update_jpeg_wake ==
    /\ prodPc = "blocked"
    /\ TrySendOutcome(slot, RecvHandles(mjpegAlive, pc)) = "Ok"
    /\ slot' = Enqueue(slot, pending, published + 1)
    /\ published' = published + 1
    /\ result' = [ op |-> "update_jpeg", tag |-> "Ok", payload |-> <<>> ]
    /\ prodPc' = "idle"
    /\ pending' = NoFrame
    /\ UNCHANGED << mjpegAlive, faults, runVars, connVars >>

\* MJpeg::try_update_jpeg(buf): try_send, the error mapped to carry frame.body.
try_update_jpeg(buf) ==
    /\ CanCall
    /\ LET frame == from_jpeg_buf(buf)
           out   == TrySendOutcome(slot, RecvHandles(mjpegAlive, pc))
       IN  IF out = "Ok"
           THEN /\ slot' = Enqueue(slot, frame, published + 1)
                /\ published' = published + 1
                /\ result' = [ op |-> "try_update_jpeg", tag |-> "Ok", payload |-> <<>> ]
           ELSE /\ result' = [ op |-> "try_update_jpeg", tag |-> out,
                               payload |-> ErrPayload(frame) ]
                /\ UNCHANGED << slot, published >>
    /\ UNCHANGED << mjpegAlive, faults, prodPc, pending, runVars, connVars >>

\* MJpeg::is_full().
is_full ==
    /\ mjpegAlive
    /\ prodPc = "idle"
    /\ result' = [ op |-> "is_full",
                   tag |-> IF ChanIsFull(slot) THEN "true" ELSE "false",
                   payload |-> <<>> ]
    /\ UNCHANGED << mjpegAlive, faults, slot, published, prodPc, pending,
                    runVars, connVars >>

(* ---------------------------- the listener ----------------------------- *)

\* run: TcpListener::bind succeeds and the accept loop starts.
run_bind_ok ==
    /\ mjpegAlive
    /\ runPc = "idle"
    /\ runPc' = "accepting"
    /\ UNCHANGED << mjpegAlive, faults, slot, published, prodVars, nThreads, connVars >>

\* run: TcpListener::bind fails and `?` returns the error to the caller.
run_bind_err ==
    /\ mjpegAlive
    /\ runPc = "idle"
    /\ runPc' = "bind_failed"
    /\ UNCHANGED << mjpegAlive, faults, slot, published, prodVars, nThreads, connVars >>

\* One iteration of the loop over server.incoming(): a thread is spawned with
\* a clone of the receiver; first is where its closure starts ("hs_write" for
\* an accepted stream, "stream_err" for a failed accept).
Spawn(first) ==
    /\ runPc = "accepting"
    /\ nThreads < MaxConns
    /\ nThreads' = nThreads + 1
    /\ pc' = [ pc EXCEPT ![nThreads + 1] = first ]
    /\ UNCHANGED << mjpegAlive, slot, published, prodVars, runPc,
                    hold, socket, rcvd, lockHolder, poisoned >>

\* incoming() yields Ok(stream): the thread is a connection handler.
accept_ok ==
    /\ Spawn("hs_write")
    /\ UNCHANGED faults

\* incoming() yields Err(e): the thread only prints the error.
accept_err ==
    /\ faults < MaxFaults
    /\ faults' = faults + 1
    /\ Spawn("stream_err")

\* Line 118: in an iteration of the loop thread::spawn panics, because the
\* OS cannot create a thread; no thread is created, run unwinds (the
\* listener is dropped, nothing accepts any more) and its borrow of the
\* MJpeg ends. The threads spawned before are detached and run on.
spawn_panic ==
    /\ runPc = "accepting"
    /\ nThreads < MaxConns
    /\ runPc' = "panicked"
    /\ UNCHANGED << mjpegAlive, faults, slot, published, prodVars, nThreads, connVars >>

(* ------------------------- a spawned thread ---------------------------- *)

\* Write::write on the TcpStream accepts some of the buffer: at least one
\* byte of a non-empty buffer, possibly not all of it.
WriteCounts(buf) == IF Len(buf) = 0 THEN {0} ELSE 1..Len(buf)

\* The socket after write accepted the first n bytes of buf (for frame id).
Written(sock, id, part, buf, n) ==
    Append(sock, [ id |-> id, part |-> part, data |-> SubSeq(buf, 1, n) ])

\* Thread h calls stream.write(buf) for the given part of frame id and gets
\* Ok(n): the stream takes the first n bytes. A short write counts as a fault.
Write(h, id, part, buf) ==
    \E n \in WriteCounts(buf) :
        /\ n < Len(buf) => faults < MaxFaults
        /\ faults' = IF n < Len(buf) THEN faults + 1 ELSE faults
        /\ socket' = [ socket EXCEPT ![h] = Written(@, id, part, buf, n) ]

\* A panic that aborts the process (panic = "abort"): every running thread
\* ends with the one that panicked.
PanicAbort(h) ==
    /\ pc' = [ g \in Conns |-> IF pc[g] \in LivePcs THEN "panicked" ELSE pc[g] ]
    /\ hold' = [ g \in Conns |-> NoFrame ]
    /\ slot' = SlotAfterDrop(slot, mjpegAlive, pc')
    /\ lockHolder' = 0
    /\ poisoned' = (poisoned \/ lockHolder # 0)
    /\ UNCHANGED << socket, rcvd >>

\* unwrap() on an Err: the thread panics and unwinds, dropping its stream,
\* the frame it holds, its clone of the receiver and, if it holds one, the
\* Mutex guard, whose drop during a panic poisons the Mutex.
Panic(h) ==
    /\ pc' = [ pc EXCEPT ![h] = "panicked" ]
    /\ hold' = [ hold EXCEPT ![h] = NoFrame ]
    /\ slot' = SlotAfterDrop(slot, mjpegAlive, pc')
    /\ lockHolder' = IF lockHolder = h THEN 0 ELSE lockHolder
    /\ poisoned' = (poisoned \/ lockHolder = h)
    /\ UNCHANGED << socket, rcvd >>

\* The Err(e) arm of the closure (lines 141-143): println!("stream err{}")
\* and the closure returns, or println! panics on a failed write to stdout;
\* either way the thread, which has no stream, ends and drops its clone of
\* the receiver.
stream_err_print(h) ==
    /\ pc[h] = "stream_err"
    /\ pc' = [ pc EXCEPT ![h] = "exited" ]
    /\ slot' = SlotAfterDrop(slot, mjpegAlive, pc')
    /\ UNCHANGED << mjpegAlive, faults, published, prodVars, runVars,
                    hold, socket, rcvd, lockHolder, poisoned >>

\* Lines 121-122: stream.write(preamble).unwrap() returns Ok(n), then
\* stream.flush().unwrap(): flush of a TcpStream does nothing and returns
\* Ok(()), so the handler goes on to its streaming loop.
handshake(h) ==
    /\ pc[h] = "hs_write"
    /\ Write(h, 0, "preamble", Preamble)
    /\ pc' = [ pc EXCEPT ![h] = "lock" ]
    /\ UNCHANGED << mjpegAlive, slot, published, prodVars, runVars,
                    hold, rcvd, lockHolder, poisoned >>

\* Line 124: recv.lock() acquires the Mutex. It returns Ok(guard), and the
\* closure given to map calls recv, or, if the Mutex is poisoned,
\* Err(PoisonError) (lines 135-137), which keeps the guard while the error
\* is printed.
lock(h) ==
    /\ pc[h] = "lock"
    /\ lockHolder = 0
    /\ lockHolder' = h
    /\ pc' = [ pc EXCEPT ![h] = IF poisoned THEN "lock_err" ELSE "recv" ]
    /\ UNCHANGED << mjpegAlive, faults, slot, published, prodVars, runVars,
                    hold, socket, rcvd, poisoned >>

\* A receive whose guard stays alive while the frame is written (the guard
\* bound to a variable of the loop body instead of the closure's argument).
recv_ok_keep_guard(h) ==
    /\ pc[h] = "recv"
    /\ lockHolder = h
    /\ RecvOutcome(slot, Senders(mjpegAlive)) = "Ok"
    /\ hold' = [ hold EXCEPT ![h] = Head(slot) ]
    /\ rcvd' = [ rcvd EXCEPT ![h] = Append(@, Head(slot).id) ]
    /\ slot' = Dequeue(slot)
    /\ pc' = [ pc EXCEPT ![h] = "write_header" ]
    /\ UNCHANGED << mjpegAlive, faults, published, prodVars, runVars, socket,
                    lockHolder, poisoned >>

\* Line 124: buf.recv() returns Ok(frame); the guard is dropped at the end of
\* the closure passed to map, before the frame is written.
recv_ok(h) ==
    /\ pc[h] = "recv"
    /\ lockHolder = h
    /\ RecvOutcome(slot, Senders(mjpegAlive)) = "Ok"
    /\ hold' = [ hold EXCEPT ![h] = Head(slot) ]
    /\ rcvd' = [ rcvd EXCEPT ![h] = Append(@, Head(slot).id) ]
    /\ slot' = Dequeue(slot)
    /\ lockHolder' = 0
    /\ pc' = [ pc EXCEPT ![h] = "write_header" ]
    /\ UNCHANGED << mjpegAlive, faults, published, prodVars, runVars, socket,
                    poisoned >>

\* Line 124: buf.recv() returns Err(RecvError); the guard is dropped at the
\* end of the closure and the match takes the arm of lines 131-133.
recv_err(h) ==
    /\ pc[h] = "recv"
    /\ lockHolder = h
    /\ RecvOutcome(slot, Senders(mjpegAlive)) = "Err"
    /\ lockHolder' = 0
    /\ pc' = [ pc EXCEPT ![h] = "recv_err" ]
    /\ UNCHANGED << mjpegAlive, faults, slot, published, prodVars, runVars,
                    hold, socket, rcvd, poisoned >>

\* Lines 131-133 and 135-137: println!("recv err{}") or println!("lock
\* err{}") writes its line; the PoisonError and the guard inside it are
\* dropped at the end of the arm, and the loop goes round.
err_print(h) ==
    /\ pc[h] \in { "recv_err", "lock_err" }
    /\ pc' = [ pc EXCEPT ![h] = "lock" ]
    /\ lockHolder' = IF lockHolder = h THEN 0 ELSE lockHolder
    /\ UNCHANGED << mjpegAlive, faults, slot, published, prodVars, runVars,
                    hold, socket, rcvd, poisoned >>

\* Lines 132 and 136: the write to stdout fails (stdout is a pipe whose
\* reader is gone) and println! panics: the thread unwinds in the error arm,
\* in the lock-error arm with the guard of the PoisonError still held.
err_print_fail(h) ==
    /\ pc[h] \in { "recv_err", "lock_err" }
    /\ Panic(h)
    /\ UNCHANGED << mjpegAlive, faults, published, prodVars, runVars >>

\* Line 127: stream.write(&frame.header).unwrap() returns Ok(n).
write_header(h) ==
    /\ pc[h] = "write_header"
    /\ Write(h, hold[h].id, "header", hold[h].header)
    /\ pc' = [ pc EXCEPT ![h] = "write_body" ]
    /\ UNCHANGED << mjpegAlive, slot, published, prodVars, runVars,
                    hold, rcvd, lockHolder, poisoned >>

\* A loop that sends the response preamble again after every frame.
write_body_preamble_again(h) ==
    /\ pc[h] = "write_body"
    /\ Write(h, hold[h].id, "body", hold[h].body)
    /\ hold' = [ hold EXCEPT ![h] = NoFrame ]
    /\ pc' = [ pc EXCEPT ![h] = "hs_write" ]
    /\ UNCHANGED << mjpegAlive, slot, published, prodVars, runVars,
                    rcvd, lockHolder, poisoned >>

\* Lines 128-129: stream.write(&frame.body).unwrap() returns Ok(n), then
\* stream.flush().unwrap() (flush of a TcpStream returns Ok(())); the frame
\* goes out of scope and the loop goes round.
write_body(h) ==
    /\ pc[h] = "write_body"
    /\ Write(h, hold[h].id, "body", hold[h].body)
    /\ hold' = [ hold EXCEPT ![h] = NoFrame ]
    /\ pc' = [ pc EXCEPT ![h] = "lock" ]
    /\ UNCHANGED << mjpegAlive, slot, published, prodVars, runVars,
                    rcvd, lockHolder, poisoned >>

\* Lines 121, 127, 128: stream.write returns Err (the peer is gone) and
\* unwrap panics.
write_fail(h) ==
    /\ pc[h] \in { "hs_write", "write_header", "write_body" }
    /\ faults < MaxFaults
    /\ faults' = faults + 1
    /\ Panic(h)
    /\ UNCHANGED << mjpegAlive, published, prodVars, runVars >>

\* Lines 121, 127, 128: stream.write blocks for ever (the peer stays
\* connected and stops reading; no write timeout is set); the thread never
\* runs again. A write that blocks for a while and then returns is
\* write_header, write_body or handshake taken later.
write_stall(h) ==
    /\ pc[h] \in { "hs_write", "write_header", "write_body" }
    /\ pc' = [ pc EXCEPT ![h] = "stalled" ]
    /\ UNCHANGED << mjpegAlive, faults, slot, published, prodVars, runVars,
                    hold, socket, rcvd, lockHolder, poisoned >>

(* ------------------------------ teardown ------------------------------- *)

\* The owner drops the MJpeg value (lines 29-32: its Sender and its Arc of
\* the receiver), which no call may be borrowing.
drop_mjpeg ==
    /\ mjpegAlive
    /\ runPc # "accepting"
    /\ prodPc = "idle"
    /\ mjpegAlive' = FALSE
    /\ slot' = SlotAfterDrop(slot, FALSE, pc)
    /\ UNCHANGED << published, prodVars, runVars, connVars, faults >>

(* --------------------------- specifications ---------------------------- *)

Producer ==
    \/ \E buf \in Payloads : update_jpeg(buf)
    \/ update_jpeg_wake
    \/ \E buf \in Payloads : try_update_jpeg(buf)
    \/ is_full

Listener ==
    \/ run_bind_ok
    \/ run_bind_err
    \/ accept_ok
    \/ accept_err
    \/ spawn_panic

Handler(h) ==
    \/ stream_err_print(h)
    \/ handshake(h)
    \/ lock(h)
    \/ recv_ok(h)
    \/ write_header(h)
    \/ write_body(h)
    \/ write_fail(h)

Next ==
    \/ Producer
    \/ Listener
    \/ \E h \in Conns : Handler(h)

\* The program while the MJpeg value lives.
Spec == Init /\ [][Next]_vars

NextTeardown ==
    \/ \E buf \in Payloads : update_jpeg(buf)
    \/ update_jpeg_wake
    \/ Listener
    \/ \E h \in Conns : Handler(h)
    \/ drop_mjpeg
    \/ \E h \in Conns : recv_err(h)
    \/ \E h \in Conns : err_print(h)
    \/ \E h \in Conns : err_print_fail(h)

\* The program including the drop of the MJpeg value once run has ended and
\* the handlers' error arms (the producer publishing with update_jpeg, as in
\* the documented loop of lines 106-109).
SpecTeardown == Init /\ [][NextTeardown]_vars

\* The connection handlers spawned so far (threads given an accepted stream).
Viewers == { h \in Conns : pc[h] \notin { "unborn", "stream_err", "exited" } }

\* incoming() yields Ok(stream) for the first and only viewer.
accept_one ==
    /\ Viewers = {}
    /\ accept_ok

NextOneViewer ==
    \/ Producer
    \/ run_bind_ok
    \/ run_bind_err
    \/ accept_one
    \/ accept_err
    \/ spawn_panic
    \/ \E h \in Conns : Handler(h)
    \/ \E h \in Conns : write_stall(h)

\* One producer and at most one viewer; the operating system schedules every
\* thread that can take a step.
SpecOneViewer ==
    /\ Init
    /\ [][NextOneViewer]_vars
    /\ \A h \in Conns : WF_vars(Handler(h))
    /\ WF_vars(update_jpeg_wake)

\* The steps of a connection handler (a thread given an accepted stream).
Viewer(h) ==
    \/ handshake(h)
    \/ lock(h)
    \/ recv_ok(h)
    \/ write_header(h)
    \/ write_body(h)
    \/ write_fail(h)

NextFair ==
    \/ update_jpeg(PayloadOfLen(MaxLen))
    \/ update_jpeg_wake
    \/ run_bind_ok
    \/ accept_ok
    \/ \E h \in Conns : Viewer(h)
    \/ \E h \in Conns : write_stall(h)

\* One producer publishing frames of MaxLen bytes with update_jpeg and any
\* number of accepted connections, some of whose writes may fail or never
\* return; the operating system schedules every thread that can take a step.
SpecFair ==
    /\ Init
    /\ [][NextFair]_vars
    /\ \A h \in Conns : WF_vars(Viewer(h))
    /\ WF_vars(update_jpeg_wake)

\* A caller holds a buffer it is about to turn into a frame.
InitFrame ==
    /\ \E buf \in Buffers :
          result = [ op |-> "input", tag |-> "none", payload |-> buf ]
    /\ mjpegAlive = TRUE
    /\ slot = <<>>
    /\ published = 0
    /\ prodPc = "idle"
    /\ pending = NoFrame
    /\ lockHolder = 0
    /\ poisoned = FALSE
    /\ runPc = "idle"
    /\ nThreads = 0
    /\ pc = [ h \in Conns |-> "unborn" ]
    /\ hold = [ h \in Conns |-> NoFrame ]
    /\ socket = [ h \in Conns |-> <<>> ]
    /\ rcvd = [ h \in Conns |-> <<>> ]
    /\ faults = 0

\* Frame::from_jpeg_buf(buf) is called on the buffer and returns the frame
\* (kept in pending, unnumbered).
call_from_jpeg_buf ==
    /\ result.op = "input"
    /\ pending' = Numbered(from_jpeg_buf(result.payload), 0)
    /\ result' = [ result EXCEPT !.op = "from_jpeg_buf", !.tag = "Ok" ]
    /\ UNCHANGED << mjpegAlive, faults, slot, published, prodPc, runVars, connVars >>

\* Frame::from_jpeg_buf alone, on every buffer of at most MaxBufLen bytes.
SpecFrame == InitFrame /\ [][call_from_jpeg_buf]_vars

(* ------------------------------ claims --------------------------------- *)

\* The publication numbers of the frames thread h wrote a chunk of, in order
\* of first appearance in its socket.
RECURSIVE IdsOf(_)
IdsOf(chunks) ==
    IF chunks = <<>> THEN <<>>
    ELSE LET rest == IdsOf(Tail(chunks))
             id   == Head(chunks).id
         IN  IF id = 0 \/ (rest # <<>> /\ Head(rest) = id)
             THEN rest ELSE <<id>> \o rest

\* The elements of a sequence.
Range(seq) == { seq[i] : i \in 1..Len(seq) }

\* Sequence seq is strictly increasing.
Increasing(seq) == \A i \in 1..Len(seq) : \A j \in 1..Len(seq) : i < j => seq[i] < seq[j]

\* The publication numbers of the chunks of the given part in a socket.
RECURSIVE PartIds(_, _)
PartIds(chunks, part) ==
    IF chunks = <<>> THEN <<>>
    ELSE IF Head(chunks).part = part
         THEN <<Head(chunks).id>> \o PartIds(Tail(chunks), part)
         ELSE PartIds(Tail(chunks), part)

\* The sequence 1, 2, ..., n.
UpTo(n) == [ i \in 1..n |-> i ]

\* C1: every published frame is received by at most one connection handler,
\* once, and chunks of it are written to at most one connection's socket.
C1_AtMostOneReceiver ==
    \A id \in 1..published :
        /\ Cardinality({ h \in Conns : id \in Range(rcvd[h]) }) <= 1
        /\ \A h \in Conns :
              Cardinality({ i \in 1..Len(rcvd[h]) : rcvd[h][i] = id }) <= 1
        /\ Cardinality({ h \in Conns : id \in Range(IdsOf(socket[h])) }) <= 1

\* Two handlers are streaming, each having received and written a frame.
C1_Witness ==
    \E h1 \in Conns : \E h2 \in Conns :
        /\ h1 # h2
        /\ pc[h1] \in StreamingPcs /\ pc[h2] \in StreamingPcs
        /\ 1 \in Range(IdsOf(socket[h1])) /\ 1 \in Range(rcvd[h1])
        /\ 2 \in Range(IdsOf(socket[h2])) /\ 2 \in Range(rcvd[h2])

\* C2: the relay holds at most one unconsumed frame.
C2_SlotAtMostOne == Len(slot) <= 1

\* The slot holds a frame while a blocking publish waits with a second one
\* and a non-blocking publish has just been refused.
C2_Witness ==
    /\ Len(slot) = 1
    /\ prodPc = "blocked"
    /\ pending.body # slot[1].body
    /\ result.tag = "Full"

\* The first of two try_update_jpeg calls has returned Ok and its frame is
\* still in the slot: no handler has received since.
C3_FirstTryOk ==
    /\ result.op = "try_update_jpeg"
    /\ result.tag = "Ok"
    /\ Len(slot) = 1
    /\ slot[1].id = published

\* C3: try_update_jpeg on an empty slot returns Ok and places the frame; a
\* second try_update_jpeg with no receive in between returns Full with
\* exactly its own payload and leaves the slot, holding the first frame, as
\* it was.
C3_SecondTryFull ==
    [][ \A buf \in Payloads :
          try_update_jpeg(buf) =>
            /\ slot = <<>> =>
                  /\ result'.tag = "Ok"
                  /\ Len(slot') = 1
                  /\ slot'[1].body = buf
                  /\ C3_FirstTryOk'
            /\ C3_FirstTryOk =>
                  /\ result'.op = "try_update_jpeg"
                  /\ result'.tag = "Full"
                  /\ result'.payload = buf
                  /\ slot' = slot
      ]_vars

\* The second call has returned Full with its one-byte payload while the
\* slot holds the first frame, which has an empty payload, and no handler
\* has received anything.
C3_Witness ==
    /\ result.op = "try_update_jpeg"
    /\ result.tag = "Full"
    /\ result.payload = PayloadOfLen(MaxLen)
    /\ published = 1
    /\ Len(slot) = 1
    /\ slot[1].id = 1
    /\ slot[1].body = <<>>
    /\ \A h \in Conns : rcvd[h] = <<>>

\* C4: is_full returns true exactly when the slot holds an unconsumed frame
\* (so true right after a publish nobody received, false right after a
\* receive drained the slot), and it changes nothing.
C4_IsFullIffOccupied ==
    [][ is_full =>
          /\ result'.op = "is_full"
          /\ (result'.tag = "true") <=> (Len(slot) >= 1)
          /\ (result'.tag = "false") <=> (slot = <<>>)
          /\ slot' = slot
      ]_vars

\* is_full has returned false after a handler's receive drained the slot of
\* the only frame published.
C4_Witness ==
    /\ result.op = "is_full"
    /\ result.tag = "false"
    /\ published = 1
    /\ slot = <<>>
    /\ \E h \in Conns : hold[h].id = 1

\* The viewer's write calls for frame id have returned Ok (body written and
\* flushed) on thread h.
FrameWritten(h, id) == id \in Range(PartIds(socket[h], "body"))

\* The viewer has received and written the frames in publish order, each
\* once and none skipped.
C5_InOrderOnce ==
    \A h \in Viewers :
        /\ rcvd[h] = UpTo(Len(rcvd[h]))
        /\ PartIds(socket[h], "header") = UpTo(Len(PartIds(socket[h], "header")))
        /\ PartIds(socket[h], "body") = UpTo(Len(PartIds(socket[h], "body")))
        /\ Len(PartIds(socket[h], "preamble")) <= 1

\* C5 as stated: with one producer and one viewer, the viewer receives and
\* writes the frames in publish order, each once and none skipped, and every
\* frame published while the viewer is connected is eventually written to
\* its socket unless the viewer disconnects (a write fails) first.
C5_Original ==
    /\ []C5_InOrderOnce
    /\ \A id \in 1..MaxFrames :
          (Viewers # {} /\ published >= id)
            ~> (\E h \in Viewers : FrameWritten(h, id) \/ pc[h] = "panicked")

\* C5, amended: with one producer and one viewer, the viewer receives and
\* writes the frames in publish order, each once and none skipped, and every
\* frame published while the viewer is connected is eventually written to
\* its socket unless the viewer disconnects (a write fails) first or stops
\* reading, so that a write of its handler never returns.
C5_OneViewerDelivery ==
    /\ []C5_InOrderOnce
    /\ \A id \in 1..MaxFrames :
          (Viewers # {} /\ published >= id)
            ~> (\E h \in Viewers :
                    FrameWritten(h, id) \/ pc[h] \in { "panicked", "stalled" })

\* The one viewer has written every frame of a full run, in order, and is
\* still connected.
C5_Witness ==
    /\ published = MaxFrames
    /\ \E h \in Viewers :
          /\ pc[h] \in StreamingPcs
          /\ PartIds(socket[h], "body") = UpTo(MaxFrames)

\* C6: whatever the number of viewers, the frames written to one viewer's
\* socket are a subsequence of 1..published: strictly increasing publication
\* numbers, so never reordered and never the same frame twice.
C6_PerViewerSubsequence ==
    \A h \in Conns :
        /\ Increasing(rcvd[h])
        /\ Increasing(PartIds(socket[h], "header"))
        /\ Increasing(PartIds(socket[h], "body"))
        /\ Range(rcvd[h]) \subseteq 1..published
        /\ Range(PartIds(socket[h], "header")) \subseteq Range(rcvd[h])
        /\ Range(PartIds(socket[h], "body")) \subseteq Range(PartIds(socket[h], "header"))

\* Two viewers are connected; one wrote frame 1 and the other, whose stream
\* has a gap, wrote only frame 2.
C6_Witness ==
    \E h1 \in Conns : \E h2 \in Conns :
        /\ h1 # h2
        /\ pc[h1] \in StreamingPcs /\ pc[h2] \in StreamingPcs
        /\ PartIds(socket[h1], "body") = <<1>>
        /\ PartIds(socket[h2], "body") = <<2>>

\* What C7 asks of every step.
C7_Step ==
    /\ \A buf \in Payloads :
          (update_jpeg(buf) /\ Len(slot) = 1) =>
              /\ prodPc' = "blocked"
              /\ pending'.body = buf
              /\ slot' = slot
              /\ result' = result
    /\ (prodPc = "blocked" /\ Len(slot) = 1) =>
              /\ prodPc' = "blocked"
              /\ pending' = pending
              /\ result' = result
    /\ (prodPc = "blocked" /\ prodPc' # "blocked") =>
              /\ slot = <<>>
              /\ Len(slot') = 1
              /\ slot'[1].body = pending.body
              /\ slot'[1].header = pending.header
              /\ result'.op = "update_jpeg"
              /\ result'.tag = "Ok"
    /\ (Len(slot) = 1 /\ slot' # slot) =>
              /\ slot' = <<>>
              /\ \E h \in Conns : pc[h] = "recv" /\ hold'[h] = slot[1]

\* C7: update_jpeg on an occupied slot parks the producer without touching
\* the slot; while it is parked and the slot is occupied it stays parked and
\* the slot changes only by a handler's receive of the queued frame; it
\* leaves update_jpeg only from an empty slot, placing its own frame and
\* returning Ok, which it can do as soon as the slot is drained; the queued
\* frame leaves the slot only into a handler's hands.
C7_BlockingPublish ==
    /\ []((prodPc = "blocked" /\ slot = <<>>) => ENABLED update_jpeg_wake)
    /\ [][C7_Step]_vars

\* The producer is parked in update_jpeg with its frame, and a handler's
\* receive has just drained the slot of the frame queued before.
C7_Witness ==
    /\ prodPc = "blocked"
    /\ pending.body = PayloadOfLen(MaxLen)
    /\ slot = <<>>
    /\ \E h \in Conns : hold[h].id = published /\ hold[h].body = <<>>

\* Every thread that run spawned has ended, so every clone of the receiver
\* handed to a consumer (line 117) has been dropped.
ConsumersGone == nThreads > 0 /\ LiveThreads(pc) = {}

\* The producer's latest call failed with a closed channel.
ClosedError == result.tag \in { "SendError", "Disconnected" }

\* What the statement of C8 asks of every step.
C8_OriginalStep ==
    \A buf \in Payloads :
        (ConsumersGone /\ (update_jpeg(buf) \/ try_update_jpeg(buf))) =>
            /\ ClosedError'
            /\ result'.payload = buf
            /\ slot' = slot

\* C8 as stated: once every consumer-side handle has been dropped,
\* update_jpeg fails with a channel-closed error and try_update_jpeg returns
\* Disconnected, each carrying back the caller's payload and placing no
\* frame.
C8_Original == [][C8_OriginalStep]_vars

\* What the amended C8 asks of every step.
C8_AmendedStep ==
    \A buf \in Payloads :
        /\ (ConsumersGone /\ slot = <<>> /\ (update_jpeg(buf) \/ try_update_jpeg(buf))) =>
              /\ result'.tag = "Ok"
              /\ Len(slot') = 1
              /\ slot'[1].body = buf
        /\ (ConsumersGone /\ Len(slot) = 1 /\ update_jpeg(buf)) =>
              /\ prodPc' = "blocked"
              /\ pending'.body = buf
              /\ slot' = slot
        /\ (ConsumersGone /\ Len(slot) = 1 /\ try_update_jpeg(buf)) =>
              /\ result'.tag = "Full"
              /\ result'.payload = buf
              /\ slot' = slot
        /\ ((update_jpeg(buf) \/ try_update_jpeg(buf)) /\ result'.tag \notin { "Ok", "none" }
                /\ result' # result) =>
              /\ result'.payload = buf
              /\ slot' = slot

\* C8, amended: the handles dropped by connection handlers never close the
\* channel, because MJpeg holds a receiver handle of its own: with every
\* consumer's handle dropped, a publish on an empty slot places the frame and
\* returns Ok, update_jpeg on an occupied slot blocks, try_update_jpeg on an
\* occupied slot returns Full; no call returns a channel-closed error; and
\* every error returned carries back exactly the caller's payload and leaves
\* the slot as it was.
C8_NoCloseWhileMJpegLives ==
    /\ [](~ClosedError)
    /\ [][C8_AmendedStep]_vars

\* The only handler has panicked on a failed write before receiving
\* anything, dropping its handle; the producer's first frame is in the slot
\* and its try_update_jpeg was refused with Full and its payload handed back.
C8_Witness ==
    /\ ConsumersGone
    /\ \E h \in Conns : pc[h] = "panicked"
    /\ result.op = "try_update_jpeg"
    /\ result.tag = "Full"
    /\ result.payload = PayloadOfLen(MaxLen)
    /\ Len(slot) = 1
    /\ slot[1].body = <<>>
    /\ slot[1].id = 1
    /\ \A h \in Conns : rcvd[h] = <<>>

C9_AmendedStep ==
    ~mjpegAlive =>
        /\ published' = published
        /\ \A h \in Conns :
              /\ recv_ok(h) =>
                    /\ Len(slot) = 1
                    /\ hold'[h] = slot[1]
                    /\ slot' = <<>>
              /\ recv_err(h) => (slot = <<>> /\ hold'[h] = NoFrame /\ rcvd' = rcvd)
              /\ (pc[h] = "recv" /\ pc'[h] # "recv") => (recv_ok(h) \/ recv_err(h))

\* A handler inside recv after the drop is never blocked: it gets the
\* buffered frame if there is one and the receive error otherwise.
C9_NeverBlocked ==
    \A h \in Conns :
        (~mjpegAlive /\ pc[h] = "recv") =>
            /\ slot = <<>> => (ENABLED recv_err(h) /\ ~ENABLED recv_ok(h))
            /\ slot # <<>> => (ENABLED recv_ok(h) /\ ~ENABLED recv_err(h))

C10_Step ==
    /\ runPc = "accepting" => runPc' = "accepting"
    /\ runPc = "bind_failed" => (runPc' = "bind_failed" /\ nThreads' = 0)
    /\ accept_err =>
          /\ runPc' = "accepting"
          /\ \A h \in Conns : pc[h] # "unborn" => pc'[h] = pc[h]
          /\ hold' = hold /\ socket' = socket /\ lockHolder' = lockHolder
          /\ slot' = slot

\* C10: after a successful bind run stays in its accept loop for ever; a
\* failed accept changes nothing but the thread spawned to report it and
\* leaves the loop ready to give the next connection a handler; run has
\* returned only if bind failed, with no thread spawned. (The panic of
\* thread::spawn at line 118 ends the loop after a successful bind.)
C10_RunNeverReturns ==
    /\ [](runPc \in { "idle", "accepting", "bind_failed" })
    /\ []((runPc = "accepting" /\ nThreads < MaxConns) => ENABLED accept_ok)
    /\ [][C10_Step]_vars

\* The characters of a decimal number.
DigitChars == { "0", "1", "2", "3", "4", "5", "6", "7", "8", "9" }

\* The value of a decimal character, as a reader of the header takes it.
DigitValue(c) ==
    CASE c = "0" -> 0 [] c = "1" -> 1 [] c = "2" -> 2 [] c = "3" -> 3
      [] c = "4" -> 4 [] c = "5" -> 5 [] c = "6" -> 6 [] c = "7" -> 7
      [] c = "8" -> 8 [] c = "9" -> 9

\* The number a reader parses from a sequence of decimal characters.
RECURSIVE ParseDecimal(_)
ParseDecimal(chars) ==
    IF chars = <<>> THEN 0
    ELSE 10 * ParseDecimal(SubSeq(chars, 1, Len(chars) - 1))
           + DigitValue(chars[Len(chars)])

\* The characters of a header between the fixed text before the length and
\* the fixed text after it.
LengthField(header) == SubSeq(header, 2, Len(header) - 1)

\* C11: for every buffer B, the empty one included, Frame::from_jpeg_buf
\* returns (it cannot fail) a frame whose header is the fixed boundary and
\* Content-Length text, a decimal number that reads back as len(B) (no sign,
\* no leading zero), and the fixed X-Timestamp text, and whose body is B.
C11_FrameOfPayload ==
    /\ result.op = "input" => ENABLED call_from_jpeg_buf
    /\ result.op = "from_jpeg_buf" =>
          LET header == pending.header
              field  == LengthField(header)
          IN  /\ Len(header) >= 3
              /\ header[1] = HeaderPrefix
              /\ header[Len(header)] = HeaderSuffix
              /\ \A i \in 1..Len(field) : field[i] \in DigitChars
              /\ Len(field) > 1 => field[1] # "0"
              /\ ParseDecimal(field) = Len(result.payload)
              /\ pending.body = result.payload

\* The frame of a ten-byte buffer holding both byte values: its header
\* declares Content-Length: 10.
C11_Witness ==
    /\ result.op = "from_jpeg_buf"
    /\ Len(result.payload) = 10
    /\ { result.payload[i] : i \in 1..10 } = Bytes
    /\ pending.header = << HeaderPrefix, "1", "0", HeaderSuffix >>
    /\ pending.body = result.payload

\* What C12 asks of every step.
C12_Step ==
    \A h \in Conns :
        /\ write_fail(h) =>
              /\ pc'[h] = "panicked"
              /\ socket' = socket /\ rcvd' = rcvd
              /\ \A g \in Conns \ {h} : pc'[g] = pc[g] /\ hold'[g] = hold[g]
              /\ slot' = slot /\ lockHolder' = lockHolder
              /\ runPc' = runPc /\ nThreads' = nThreads
              /\ prodPc' = prodPc /\ pending' = pending /\ result' = result
              /\ published' = published /\ mjpegAlive' = mjpegAlive
        /\ pc[h] = "panicked" =>
              /\ pc'[h] = "panicked"
              /\ socket'[h] = socket[h] /\ rcvd'[h] = rcvd[h]
              /\ hold'[h] = NoFrame
              /\ lockHolder' # h

\* Once a handler has terminated on a failed write, everything else can
\* still do what it could do before: the lock is free or with a running
\* receiver, a waiting handler can take a free lock, a receiver gets a
\* buffered frame, the listener can spawn, the producer can publish into an
\* empty slot.
C12_OthersRunOn ==
    (\E h \in Conns : pc[h] = "panicked") =>
        /\ lockHolder = 0 \/ pc[lockHolder] = "recv"
        /\ \A g \in Conns :
              /\ (pc[g] = "lock" /\ lockHolder = 0) => ENABLED lock(g)
              /\ (pc[g] = "recv" /\ slot # <<>>) => ENABLED recv_ok(g)
        /\ (runPc = "accepting" /\ nThreads < MaxConns) => ENABLED accept_ok
        /\ (CanCall /\ slot = <<>>) =>
              \A buf \in Payloads :
                  /\ ENABLED (update_jpeg(buf) /\ result'.tag = "Ok" /\ Len(slot') = 1)
                  /\ ENABLED (try_update_jpeg(buf) /\ result'.tag = "Ok" /\ Len(slot') = 1)
        /\ (prodPc = "blocked" /\ slot = <<>>) => ENABLED update_jpeg_wake

\* C12: a failed write on one connection, in the handshake or while a frame
\* is streamed, ends that connection's handler and nothing else: the handler
\* writes and receives nothing more, and every other handler, the listener
\* and the producer are left as they were and remain able to receive, accept
\* and publish.
C12_WriteFailureEndsOneHandler ==
    /\ []C12_OthersRunOn
    /\ [][C12_Step]_vars

\* A handler terminated on a failed write of the first frame, which it had
\* received; the producer published a second frame and another handler
\* received and wrote it; the listener is still accepting.
C12_Witness ==
    /\ runPc = "accepting"
    /\ published = 2
    /\ result.tag = "Ok"
    /\ \E h1 \in Conns : \E h2 \in Conns :
          /\ pc[h1] = "panicked"
          /\ rcvd[h1] = <<1>>
          /\ PartIds(socket[h1], "body") = <<>>
          /\ pc[h2] \in StreamingPcs
          /\ rcvd[h2] = <<2>>
          /\ PartIds(socket[h2], "body") = <<2>>

\* What C13 asks of every step.
C13_Step ==
    \A h \in Conns :
        /\ recv_err(h) =>
              /\ pc'[h] = "recv_err"
              /\ socket' = socket /\ hold' = hold /\ rcvd' = rcvd
              /\ lockHolder' = 0
        /\ (lock(h) /\ poisoned) =>
              /\ pc'[h] = "lock_err"
              /\ socket' = socket /\ hold' = hold /\ rcvd' = rcvd
        /\ pc[h] \in { "recv_err", "lock_err" } =>
              /\ pc'[h] \in { pc[h], "lock" }
              /\ socket'[h] = socket[h]
              /\ hold'[h] = NoFrame
              /\ rcvd'[h] = rcvd[h]
        /\ (pc[h] \in { "lock", "recv" } /\ pc'[h] # pc[h]) =>
              \/ lock(h)
              \/ recv_ok(h)
              \/ recv_err(h)

\* A handler that met a failed receive or a failed lock is still running,
\* can log and go round, and then asks for the lock again.
C13_Retries ==
    \A h \in Conns :
        /\ pc[h] \in { "recv_err", "lock_err" } =>
              /\ h \in LiveThreads(pc)
              /\ ENABLED err_print(h)
        /\ (pc[h] = "lock" /\ lockHolder = 0) => ENABLED lock(h)
        /\ (pc[h] = "recv" /\ ~mjpegAlive /\ slot = <<>>) => ENABLED recv_err(h)

\* C13: a receive that fails because the channel is closed, or a lock that
\* fails because the Mutex is poisoned, never ends the handler and never
\* writes to its socket: the handler releases the lock, prints, and goes
\* back to acquiring the lock and receiving, every time.
C13_ErrorsAreRetried ==
    /\ []C13_Retries
    /\ [][C13_Step]_vars

\* The handshake of thread h has succeeded: it is in its streaming loop, or
\* it ended after having been there.
HandshakeDone(h) ==
    \/ pc[h] \in StreamingPcs
    \/ pc[h] = "panicked" /\ socket[h] # <<>>

\* C14: on every connection the preamble is written once, as the first
\* thing on the socket, before any byte of a frame; a handler asks for the
\* lock and receives only after its handshake write and flush returned Ok;
\* a handler whose handshake failed has received no frame.
C14_PreambleOnceAndFirst ==
    \A h \in Conns :
        /\ Len(PartIds(socket[h], "preamble")) <= 1
        /\ socket[h] # <<>> => socket[h][1].part = "preamble"
        /\ HandshakeDone(h) => Len(PartIds(socket[h], "preamble")) = 1
        /\ (rcvd[h] # <<>> \/ hold[h] # NoFrame \/ lockHolder = h) => HandshakeDone(h)
        /\ pc[h] = "hs_write" => socket[h] = <<>>
        /\ ~HandshakeDone(h) => (rcvd[h] = <<>> /\ socket[h] = <<>>)

\* One handler's handshake failed: it ended with an empty socket and no
\* frame received. Another wrote the preamble and then received and wrote a
\* frame after it.
C14_Witness ==
    \E h1 \in Conns : \E h2 \in Conns :
        /\ pc[h1] = "panicked" /\ socket[h1] = <<>> /\ rcvd[h1] = <<>>
        /\ pc[h2] \in StreamingPcs
        /\ Len(socket[h2]) = 3
        /\ socket[h2][1].part = "preamble"
        /\ socket[h2][2].part = "header"
        /\ socket[h2][3].part = "body"
        /\ rcvd[h2] = <<1>>

\* The handlers inside recv, and those inside a socket write of a frame.
Receiving == { h \in Conns : pc[h] = "recv" }
WritingFrame == { h \in Conns : pc[h] \in { "write_header", "write_body" } }

\* C15: at most one handler is inside recv at any time; the lock is held
\* exactly by the handler inside recv and by no handler that is writing a
\* frame; so while a handler sits in a socket write, another handler can
\* take the lock and receive the next frame.
C15_LockOnlyAroundRecv ==
    /\ Cardinality(Receiving) <= 1
    /\ \A h \in Conns : (lockHolder = h) <=> (pc[h] = "recv")
    /\ \A h \in WritingFrame : lockHolder # h
    /\ WritingFrame # {} =>
          \A g \in Conns :
              /\ (pc[g] = "lock" /\ Receiving = {}) => ENABLED lock(g)
              /\ (pc[g] = "recv" /\ slot # <<>>) => ENABLED recv_ok(g)

\* One handler is still in the write of the header of frame 1 while another
\* has taken the lock, received frame 2 and written it.
C15_Witness ==
    \E h1 \in Conns : \E h2 \in Conns :
        /\ pc[h1] = "write_header" /\ hold[h1].id = 1
        /\ PartIds(socket[h1], "header") = <<>>
        /\ rcvd[h2] = <<2>>
        /\ PartIds(socket[h2], "body") = <<2>>

\* What C16 asks of the step in which the last write of a frame returns Ok:
\* the socket then ends with the whole header of the frame, as built by
\* from_jpeg_buf for its body, followed by the whole body.
C16_Step ==
    \A h \in Conns :
        write_body(h) =>
            LET s == socket'[h]
                n == Len(s)
            IN  /\ n >= 3
                /\ hold[h].header = from_jpeg_buf(hold[h].body).header
                /\ s[n - 1] = [ id |-> hold[h].id, part |-> "header",
                                data |-> hold[h].header ]
                /\ s[n] = [ id |-> hold[h].id, part |-> "body",
                            data |-> hold[h].body ]

\* C16: for every frame a handler dequeues and whose write and flush calls
\* all return without error, the bytes appended to the connection's socket
\* are the complete header followed by all the body bytes of that frame,
\* contiguous and with nothing omitted.
C16_FrameWrittenWhole == [][C16_Step]_vars

\* No connection handler is running: none was spawned, or all have ended.
NoHandlerRunning == \A h \in Conns : pc[h] \notin StreamingPcs \cup { "hs_write" }

\* What C17 asks of every step.
C17_Step ==
    /\ \A buf \in Payloads :
          (update_jpeg(buf) \/ try_update_jpeg(buf)) =>
              /\ result'.tag \in { "none", "Ok", "Full", "true", "false" }
              /\ NoHandlerRunning =>
                    /\ slot = <<>> => (result'.tag = "Ok" /\ Len(slot') = 1)
                    /\ (Len(slot) = 1 /\ update_jpeg(buf)) => prodPc' = "blocked"
    /\ (prodPc = "blocked" /\ Len(slot) = 1 /\ NoHandlerRunning) =>
          /\ prodPc' = "blocked"
          /\ slot' = slot
          /\ result' = result

\* C17: while the MJpeg value exists its own handle of the receiver keeps
\* the channel open, so with any number of connections, none included, and
\* any number of handlers ended, update_jpeg and try_update_jpeg never
\* return a closed-channel error; with no handler running, a publish into
\* the empty slot succeeds and the next update_jpeg parks on the occupied
\* slot and stays parked for as long as no handler runs.
C17_PublisherKeepsChannelOpen ==
    /\ []((prodPc = "blocked" /\ Len(slot) = 1 /\ NoHandlerRunning)
             => ~ENABLED update_jpeg_wake)
    /\ [][C17_Step]_vars

\* No connection was ever made: the first update_jpeg returned Ok and the
\* second is parked on the full slot.
C17_Witness ==
    /\ nThreads = 0
    /\ published = 1
    /\ Len(slot) = 1
    /\ prodPc = "blocked"
    /\ result = [ op |-> "update_jpeg", tag |-> "Ok", payload |-> <<>> ]

\* The producer's latest call was is_full and it returned false.
IsFullSaidFalse == result.op = "is_full" /\ result.tag = "false"

\* What C18 asks of every step.
C18_Step ==
    /\ \A buf \in Payloads :
          /\ (IsFullSaidFalse /\ update_jpeg(buf)) =>
                /\ result' = [ op |-> "update_jpeg", tag |-> "Ok", payload |-> <<>> ]
                /\ prodPc' = "idle"
                /\ Len(slot') = 1 /\ slot'[1].body = buf
          /\ (IsFullSaidFalse /\ try_update_jpeg(buf)) =>
                /\ result' = [ op |-> "try_update_jpeg", tag |-> "Ok", payload |-> <<>> ]
                /\ Len(slot') = 1 /\ slot'[1].body = buf
    /\ (IsFullSaidFalse /\ result' = result) => slot' = <<>>

\* C18: with one producer thread, after is_full returned false the slot
\* stays empty until the producer's next call, whatever the handlers do in
\* between, so that call, update_jpeg or try_update_jpeg, places its frame
\* and returns Ok without parking and without Full.
C18_NotFullThenPublishOk ==
    /\ [](IsFullSaidFalse => slot = <<>>)
    /\ [](IsFullSaidFalse /\ CanCall =>
            \A buf \in Payloads :
                /\ ENABLED (update_jpeg(buf) /\ result'.tag = "Ok")
                /\ ENABLED (try_update_jpeg(buf) /\ result'.tag = "Ok"))
    /\ [][C18_Step]_vars

\* is_full returned false after the first frame was received; since then
\* the handler that received it wrote it and is inside recv again, another
\* handler waits for the lock, and the producer can make its next call.
C18_Witness ==
    /\ IsFullSaidFalse
    /\ published = 1
    /\ CanCall
    /\ \E h1 \in Conns : \E h2 \in Conns :
          /\ pc[h1] = "recv" /\ rcvd[h1] = <<1>>
          /\ PartIds(socket[h1], "body") = <<1>>
          /\ pc[h2] = "lock"

\* The update_jpeg call in progress has returned Ok.
UpdateReturnedOk ==
    /\ prodPc = "idle"
    /\ result = [ op |-> "update_jpeg", tag |-> "Ok", payload |-> <<>> ]

\* Thread h is a handler in its streaming loop whose writes have not failed
\* and are not stuck.
GoodHandler(h) == pc[h] \in StreamingPcs

\* Some thread can take a step whenever update_jpeg is parked and a handler
\* is in its streaming loop.
C19_NoDeadlock ==
    (prodPc = "blocked" /\ \E h \in Conns : GoodHandler(h)) =>
        (ENABLED update_jpeg_wake \/ \E h \in Conns : ENABLED Viewer(h))

\* C19: the producer and the handlers never deadlock: with every runnable
\* thread scheduled, an update_jpeg that is parked while some handler is in
\* its streaming loop returns Ok, unless the writes of every such handler
\* fail or never return; so one handler whose writes always complete is
\* enough, whatever the others do: fail on a write, wait for the lock, or
\* stay stuck in a write.
C19_UpdateEventuallyReturns ==
    /\ []C19_NoDeadlock
    /\ (prodPc = "blocked" /\ \E h \in Conns : GoodHandler(h))
          ~> (UpdateReturnedOk \/ \A h \in Conns : ~GoodHandler(h))

\* update_jpeg is parked on the full slot while one handler is stuck for
\* ever in the write of its preamble and another waits for the lock.
C19_Witness ==
    /\ prodPc = "blocked"
    /\ Len(slot) = 1
    /\ \E h1 \in Conns : \E h2 \in Conns :
          /\ pc[h1] = "stalled"
          /\ pc[h2] = "lock"

\* The positions at which a thread can panic with the Mutex not poisoned:
\* the unwrap() of a write and the println! of the recv-error arm.
PanicPcs == { "hs_write", "write_header", "write_body", "recv_err" }

====
